---- MODULE Spec2Model ----
\* Model of the github-feed poll loop (package lib): EventFeed.Serve, EventFeed.poll,
\* pollIntervalOrPropagateError and pollIntervalFromResponse, in its two variants
\* (with and without the httpcache transport), together with the remote feed, the
\* caller's context and the consumer of the events channel; and of the
\* consumer's side in main.go: main's range loop, processBatch with its
\* fixed-rate dispatcher rateLimit, and clientFor with its map of cookie jars.
EXTENDS Integers, Sequences, FiniteSets, TLC

\* ---------------------------------------------------------------------------
\* Program constants.
defaultPollSeconds == 60
defaultFeedCapacity == 16
maximumEventsPages == 10

\* Bounds of the model.
MaxCycles == 2          \* poll cycles Serve may start against a short feed
ShortFeedPages == 2     \* pages of a short feed
MaxEventsPerPage == 2   \* events the remote feed puts in one page
MaxClock == 2           \* clock readings and rate-limit reset times are in 0..MaxClock
MaxJumps == 1           \* times the remote feed answers with a next page out of sequence
MaxSteadyCycles == 18   \* poll cycles Serve may start against a steady feed
MaxCallers == 3         \* concurrent calls of clientFor
MaxDispatchPages == 5   \* pages of the batches processBatch is run on

\* ---------------------------------------------------------------------------
\* State.
VARIABLES
    feed,           \* the remote feed Serve runs against
    variant,        \* which variant of the package runs
    pc,             \* where Serve is: "loop", "page", "fetch", "polled", "select",
                    \* "parked", "done"
    cycle,          \* number of poll() calls made so far
    i,              \* poll's loop counter
    page,           \* opts.Page
    events,         \* poll's events
    poll_interval,  \* poll's poll_interval, then Serve's
    err,            \* poll's err, then Serve's
    resp,           \* what the last ListEvents of this poll returned
    now,            \* the clock as the last pacing decision read it, 0 if it did not
    calls,          \* the pages ListEvents was called for during this poll
    jumps,          \* times the feed has answered out of sequence
    queue,          \* the events channel's buffer
    emitted,        \* every batch sent on the events channel so far, in order
    closes,         \* times the events channel was closed
    ret,            \* what Serve returned, "running" until it does
    cancelled,      \* whether f.ctx is done
    cancelAt,       \* what Serve was doing when the context was cancelled: "fetch"
                    \* (a fetch in flight), "sleep" (parked in the select, the timer
                    \* not fired), "other"; "none" before
    timer,          \* the time.After timer of the select: "off", "armed", "fired"
    wake,           \* the case the select has chosen: "none", "timer", "done"
    received,       \* the batches main's range loop has received, in order
    mainState,      \* main: "ranging" over the channel, "returned" once the range
                    \* ended, "crashed" once a panic has ended the process
    \* processBatch and rateLimit, for one batch.
    dBatch,         \* the batch processBatch was started for
    dpc,            \* rateLimit's goroutine: "start", "wait", "send", "close", "done",
                    \* "panic"
    dNext,          \* events of the batch the goroutine has forwarded
    dTick,          \* the ticker's period, a Duration
    tickC,          \* whether ticker.C holds a tick
    dFeed,          \* the buffer of rateLimit's channel
    dClosed,        \* times rateLimit's channel was closed
    dGot,           \* the events processBatch's range loop has received, in order
    dRange,         \* processBatch: "ranging", "returned"
    \* clientFor and its callers.
    cookies,        \* the cookies map: a jar per user, NoJar where it has no entry
    cReaders,       \* callers holding cMu's read lock
    cWriter,        \* whether a caller holds cMu's write lock
    cpc,            \* where each caller is in clientFor
    cUser,          \* the user each caller calls clientFor for
    cJar,           \* each caller's jar
    cFound,         \* each caller's found
    jars            \* jars cookiejar.New has made so far

\* The variables of Serve, poll, the context and main.
serveVars == <<feed, variant, pc, cycle, i, page, events, poll_interval, err, resp, now,
               calls, jumps, queue, emitted, closes, ret, cancelled, cancelAt, timer, wake,
               received, mainState>>

\* The variables of processBatch and rateLimit.
dispatchVars == <<dBatch, dpc, dNext, dTick, tickC, dFeed, dClosed, dGot, dRange>>

\* The variables of clientFor.
clientVars == <<cookies, cReaders, cWriter, cpc, cUser, cJar, cFound, jars>>

vars == <<serveVars, dispatchVars, clientVars>>

\* What no step of Serve, of the context or of the feed changes.
restVars == <<dispatchVars, clientVars>>

mainVars == <<received, mainState>>

pollVars == <<i, page, events, poll_interval, err, resp, now, calls, jumps>>

\* ---------------------------------------------------------------------------
\* time.Duration is an int64 count of nanoseconds. An int64 is kept here as its
\* two's complement bit pattern, four 16-bit limbs, least significant first.
LimbBase == 65536

Limbs64 == 4

\* x * m + a on a vector of limbs, the carry out of the top limb dropped: the
\* arithmetic of a machine integer as wide as the vector (0 <= m, a < LimbBase).
RECURSIVE LimbMulAdd(_, _, _)
LimbMulAdd(x, m, a) ==
    IF x = <<>> THEN <<>>
    ELSE LET t == x[1] * m + a
         IN  <<t % LimbBase>> \o LimbMulAdd(Tail(x), m, t \div LimbBase)

RECURSIVE LimbZero(_)
LimbZero(n) == IF n = 0 THEN <<>> ELSE <<0>> \o LimbZero(n - 1)

\* -x in two's complement: every bit flipped, plus one.
RECURSIVE LimbNot(_)
LimbNot(x) == IF x = <<>> THEN <<>> ELSE <<LimbBase - 1 - x[1]>> \o LimbNot(Tail(x))

LimbNeg(x) == LimbMulAdd(LimbNot(x), 1, 1)

\* The sign bit of a two's complement vector.
LimbIsNeg(x) == x[Len(x)] >= LimbBase \div 2

\* A small integer of the model as a machine integer of n limbs.
LimbOfInt(v, n) ==
    IF v >= 0 THEN LimbMulAdd(LimbZero(n), 1, v) ELSE LimbNeg(LimbMulAdd(LimbZero(n), 1, -v))

\* time.Second = 1000 * 1000 * 1000 nanoseconds; the multiplication wraps.
MulSecond(x) == LimbMulAdd(LimbMulAdd(LimbMulAdd(x, 1000, 0), 1000, 0), 1000, 0)

\* time.Duration(-1), the value poll() starts with and returns beside an error.
DurationMinusOne == LimbOfInt(-1, Limbs64)

\* ---------------------------------------------------------------------------
\* strconv.Atoi on a string, a sequence of characters here.
DigitChars == <<"0", "1", "2", "3", "4", "5", "6", "7", "8", "9">>

IsDigit(c) == \E d \in 1..10 : DigitChars[d] = c

DigitVal(c) == (CHOOSE d \in 1..10 : DigitChars[d] = c) - 1

\* Limbs of the magnitude while it is parsed: wide enough for 28 digits, so that
\* the range test below sees the true magnitude.
LimbsWide == 6

RECURSIVE Magnitude(_)
Magnitude(digits) ==
    IF digits = <<>> THEN LimbZero(LimbsWide)
    ELSE LimbMulAdd(Magnitude(SubSeq(digits, 1, Len(digits) - 1)), 10,
                    DigitVal(digits[Len(digits)]))

\* Whether a magnitude is in the range of int (64 bits): at most 2^63 - 1, or 2^63
\* for a negative number.
InIntRange(mag, neg) ==
    /\ \A k \in (Limbs64 + 1)..LimbsWide : mag[k] = 0
    /\ \/ mag[Limbs64] < LimbBase \div 2
       \/ /\ neg
          /\ mag[Limbs64] = LimbBase \div 2
          /\ \A k \in 1..(Limbs64 - 1) : mag[k] = 0

\* Atoi(s): an optional sign, then one or more decimal digits; a syntax error for
\* anything else and a range error for a number int cannot hold.
Atoi(s) ==
    LET signed == s # <<>> /\ s[1] \in {"+", "-"}
        neg    == s # <<>> /\ s[1] = "-"
        digits == IF signed THEN Tail(s) ELSE s
        mag    == Magnitude(digits)
        low    == SubSeq(mag, 1, Limbs64)
    IN  IF digits = <<>> \/ \E k \in 1..Len(digits) : ~IsDigit(digits[k])
        THEN [ok |-> FALSE, val |-> LimbZero(Limbs64)]
        ELSE IF ~InIntRange(mag, neg)
        THEN [ok |-> FALSE, val |-> LimbZero(Limbs64)]
        ELSE [ok |-> TRUE, val |-> IF neg THEN LimbNeg(low) ELSE low]

\* Values of the X-Poll-Interval header the feed answers with: absent, empty, a
\* number, not a number, a negative number, and the least number of seconds
\* that a Duration cannot hold (int holds it).
PollHeaders ==
    { <<>>,
      << <<>> >>,
      << <<"4", "5">> >>,
      << <<"a", "b", "c">> >>,
      << <<"-", "5">> >>,
      << <<"9", "2", "2", "3", "3", "7", "2", "0", "3", "7">> >> }

\* http.Header.Get: the first value stored under the key, "" when there is none.
\* A header is the sequence of the values stored under its key.
HeaderGet(values) == IF values = <<>> THEN <<>> ELSE values[1]

\* pollIntervalFromResponse: the X-Poll-Interval header as a number of seconds,
\* the default when the header is empty or Atoi fails.
pollIntervalFromResponse(r) ==
    LET default_duration == MulSecond(LimbOfInt(defaultPollSeconds, Limbs64))
        poll_header      == HeaderGet(r.pollHeader)
        parsed           == Atoi(poll_header)
    IN  IF poll_header = <<>> THEN default_duration
        ELSE IF ~parsed.ok THEN default_duration
        ELSE MulSecond(parsed.val)

\* pollIntervalFromResponse on each header of the feed, computed once.
PollIntervalOf == [h \in PollHeaders |-> pollIntervalFromResponse([pollHeader |-> h])]

\* Mutant of TimeUntil: a reset time that is past gives zero.
TimeUntil_Clamped(t, clock) ==
    IF t > clock THEN MulSecond(LimbOfInt(t - clock, Limbs64)) ELSE LimbZero(Limbs64)

\* time.Until(t): t minus the clock's reading, both in whole seconds here.
TimeUntil(t, clock) == MulSecond(LimbOfInt(t - clock, Limbs64))

\* ---------------------------------------------------------------------------
\* The remote feed and the values a fetch can return.

\* The users clientFor is called for.
Users == {"alice", "bob"}

\* Error values. ErrNil is Go's nil error; ErrRateLimit is *github.RateLimitError;
\* ErrCanceled is f.ctx.Err() once the context is cancelled; ErrOther stands for
\* every other error ListEvents can return.
ErrNil == "nil"
ErrRateLimit == "RateLimitError"
ErrCanceled == "context.Canceled"
ErrOther == "OtherError"

\* The two variants of the package: with the httpcache transport, which marks
\* cached responses, and without it.
Variants == {"cached", "plain"}

\* The events of page p of the feed during cycle cy: the feed's content changes
\* from cycle to cycle, and pages are empty, of one event or of several.
PageLen(p) == p % (MaxEventsPerPage + 1)

EventsOfPage(cy, p) == [k \in 1..PageLen(p) |-> <<cy, p, k>>]

\* The remote feeds Serve is run against. A long feed is followed for one poll
\* cycle: its chain of pages may go on past the page limit, it answers with any
\* header of PollHeaders and may answer out of sequence. A short feed is followed
\* for MaxCycles cycles: it has at most ShortFeedPages pages and answers with the
\* headers of ShortFeedHeaders.
Feeds == {"long", "short"}

ShortFeedHeaders == { <<>>, << <<"4", "5">> >> }

FeedHeaders(fd) == IF fd = "long" THEN PollHeaders ELSE ShortFeedHeaders

\* Two more feeds, followed for many cycles, whose answers are fixed by the
\* cycle. A steady feed has one page: it answers every third cycle with a rate
\* limit and, to the cached variant, another third from the cache. A chain feed
\* has a page after every page.
PacedFeeds == {"steady", "chain"}

CyclesOf(fd) ==
    IF fd = "long" THEN 1 ELSE IF fd = "steady" THEN MaxSteadyCycles ELSE MaxCycles

\* The next-page cursors the feed may answer a fetch of page p with: none (0), the
\* following page, or, for a long feed that may still answer out of sequence, the
\* first page again.
NextPages(fd, p, j) ==
    IF fd = "long"
    THEN {0, p + 1} \cup (IF j < MaxJumps THEN {1} ELSE {})
    ELSE IF p < ShortFeedPages THEN {0, p + 1} ELSE {0}

\* The response before any fetch of a poll.
NoResponse ==
    [err |-> ErrNil, nextPage |-> 0, pollHeader |-> <<>>, fromCache |-> FALSE, reset |-> 0,
     errReset |-> 0]

\* A page of the feed as ListEvents returns it.
PageResponse(np, h, c) ==
    [err |-> ErrNil, nextPage |-> np, pollHeader |-> h, fromCache |-> c, reset |-> 0,
     errReset |-> 0]

\* A rate-limit error: the reset time is in the response's Rate (reset) and in
\* the error's Rate (errReset), which the client library fills from the same
\* HTTP response.
RateLimitResponses ==
    {[err |-> ErrRateLimit, nextPage |-> 0, pollHeader |-> <<>>, fromCache |-> FALSE,
      reset |-> t, errReset |-> t] : t \in 0..MaxClock}

\* Another error, or, the context being cancelled, the context's error.
FailedResponses(ctxDone) ==
    {[err |-> e, nextPage |-> 0, pollHeader |-> <<>>, fromCache |-> FALSE, reset |-> 0,
      errReset |-> 0] : e \in {ErrOther} \cup (IF ctxDone THEN {ErrCanceled} ELSE {})}

\* What ListEvents(f.ctx, &opts) can return for page p: a page, a rate-limit
\* error carrying the reset time, another error, or, the context being
\* cancelled, the context's error. Only the cached variant's transport marks
\* responses as served from the cache.
Responses(fd, v, p, j, ctxDone) ==
    {PageResponse(np, h, c) :
        np \in NextPages(fd, p, j), h \in FeedHeaders(fd),
        c \in (IF v = "cached" THEN BOOLEAN ELSE {FALSE})}
    \cup RateLimitResponses
    \cup FailedResponses(ctxDone)

\* What ListEvents can return for page p of a paced feed during cycle cy.
PacedResponses(fd, v, cy, p, ctxDone) ==
    (IF fd = "chain" THEN {PageResponse(p + 1, <<>>, FALSE)}
     ELSE IF cy % 3 = 0 THEN RateLimitResponses
     ELSE {PageResponse(0, <<>>, v = "cached" /\ cy % 3 = 2)})
    \cup FailedResponses(ctxDone)

\* ---------------------------------------------------------------------------
\* The pacing decision and the pieces of poll().

\* Mutant of pollIntervalOrPropagateError: a rate-limit error is propagated like
\* any other error.
pollIntervalOrPropagateError_Propagates(v, r, clock) ==
    IF r.err # ErrNil
    THEN [interval |-> DurationMinusOne, throttled |-> FALSE, err |-> r.err]
    ELSE [interval |-> PollIntervalOf[r.pollHeader], throttled |-> FALSE, err |-> ErrNil]

\* The reset time of a rate limit: the cached variant reads it in the response
\* (r.Rate), the plain variant in the error (err.(*github.RateLimitError).Rate).
RateReset(v, r) == IF v = "cached" THEN r.reset ELSE r.errReset

\* pollIntervalOrPropagateError(r, err): a rate-limit error gives the time left
\* until the reset and asks to stop; another error is propagated; no error gives
\* the response's poll interval.
pollIntervalOrPropagateError(v, r, clock) ==
    IF r.err # ErrNil
    THEN IF r.err = ErrRateLimit
         THEN [interval |-> TimeUntil(RateReset(v, r), clock), throttled |-> TRUE,
               err |-> ErrNil]
         ELSE [interval |-> DurationMinusOne, throttled |-> FALSE, err |-> r.err]
    ELSE [interval |-> PollIntervalOf[r.pollHeader], throttled |-> FALSE, err |-> ErrNil]

\* Mutant of isCachedResponse: the header is looked up under another name and
\* never found.
isCachedResponse_Never(r) == FALSE

\* isCachedResponse: the response has the X-From-Cache header.
isCachedResponse(r) == r.fromCache

\* Mutant of StopsBeforeAppend: poll() also leaves the loop when the context is
\* cancelled.
StopsBeforeAppend_ChecksContext(v, r, d) ==
    \/ d.err # ErrNil
    \/ d.throttled
    \/ v = "cached" /\ isCachedResponse(r)
    \/ cancelled

\* Mutant of StopsBeforeAppend: the plain variant does not leave the loop on a
\* throttling.
StopsBeforeAppend_PlainIgnoresThrottle(v, r, d) ==
    \/ d.err # ErrNil
    \/ d.throttled /\ v = "cached"
    \/ v = "cached" /\ isCachedResponse(r)

\* Whether poll() leaves the pagination loop before appending the page: an
\* error or a throttling, or, in the cached variant, a cached response.
StopsBeforeAppend(v, r, d) ==
    \/ d.err # ErrNil
    \/ d.throttled
    \/ v = "cached" /\ isCachedResponse(r)

\* Mutant of AppendBatch: the page is put before the events already there.
AppendBatch_Prepends(evs, batch) == batch \o evs

\* events = append(events, batch...)
AppendBatch(evs, batch) == evs \o batch

\* Mutant of LoopsAgain: the loop's bound is off by one.
LoopsAgain_OffByOne(r, n) == r.nextPage # 0 /\ n + 1 <= maximumEventsPages

\* Mutant of LoopsAgain: the test of the next page is missing.
LoopsAgain_IgnoresSentinel(r, n) == n + 1 < maximumEventsPages

\* The pagination loop goes round again: the page had a successor and the loop
\* counter, once incremented, is below the page limit.
LoopsAgain(r, n) == r.nextPage # 0 /\ n + 1 < maximumEventsPages

\* Mutant of NextCursor: the next page is counted, not read in the response.
NextCursor_Increments(r, p) == p + 1

\* opts.Page = response.NextPage
NextCursor(r, p) == r.nextPage

\* Mutant of pollLoopBody: the interval is assigned on the first page only.
pollLoopBody_KeepsFirstInterval(v, cy, n, p, evs, r, clock) ==
    LET d    == pollIntervalOrPropagateError(v, r, clock)
        stop == StopsBeforeAppend(v, r, d)
    IN  [poll_interval |-> IF n = 0 THEN d.interval ELSE poll_interval,
         err           |-> d.err,
         events        |-> IF stop THEN evs ELSE AppendBatch(evs, EventsOfPage(cy, p)),
         page          |-> IF stop THEN p ELSE NextCursor(r, p),
         i             |-> IF ~stop /\ r.nextPage # 0 THEN n + 1 ELSE n,
         again         |-> ~stop /\ LoopsAgain(r, n)]

\* The body of poll()'s loop once ListEvents has returned r for page p, in
\* variant v: the pacing decision, the tests that leave the loop, the append and
\* the next page; again tells whether the loop goes round again.
pollLoopBody(v, cy, n, p, evs, r, clock) ==
    LET d    == pollIntervalOrPropagateError(v, r, clock)
        stop == StopsBeforeAppend(v, r, d)
    IN  [poll_interval |-> d.interval,
         err           |-> d.err,
         events        |-> IF stop THEN evs ELSE AppendBatch(evs, EventsOfPage(cy, p)),
         page          |-> IF stop THEN p ELSE NextCursor(r, p),
         i             |-> IF ~stop /\ r.nextPage # 0 THEN n + 1 ELSE n,
         again         |-> ~stop /\ LoopsAgain(r, n)]

\* ---------------------------------------------------------------------------
\* Construction.
\* cancelAt while the context is not cancelled.
NotCancelled == "none"

\* NewEventFeed: a feed that has not polled yet, over an open, empty channel,
\* and main about to range over it.
NewEventFeed(fds) ==
    /\ feed \in fds
    /\ variant \in Variants
    /\ pc = "loop"
    /\ cycle = 0
    /\ i = 0
    /\ page = 1
    /\ events = <<>>
    /\ poll_interval = DurationMinusOne
    /\ err = ErrNil
    /\ resp = NoResponse
    /\ now = 0
    /\ calls = <<>>
    /\ jumps = 0
    /\ queue = <<>>
    /\ emitted = <<>>
    /\ closes = 0
    /\ ret = "running"
    /\ cancelled = FALSE
    /\ cancelAt = NotCancelled
    /\ timer = "off"
    /\ wake = "none"
    /\ received = <<>>
    /\ mainState = "ranging"

\* No processBatch runs.
DispatchIdle ==
    /\ dBatch = <<>>
    /\ dpc = "off"
    /\ dNext = 0
    /\ dTick = LimbZero(Limbs64)
    /\ tickC = FALSE
    /\ dFeed = <<>>
    /\ dClosed = 0
    /\ dGot = <<>>
    /\ dRange = "off"

\* The callers of clientFor and the jar that is none.
Callers == 1..MaxCallers

NoJar == 0

\* No clientFor runs, the cookies map as main.go makes it: empty.
ClientsIdle ==
    /\ cookies = [u \in Users |-> NoJar]
    /\ cReaders = {}
    /\ cWriter = FALSE
    /\ cpc = [t \in Callers |-> "off"]
    /\ cUser = [t \in Callers |-> "none"]
    /\ cJar = [t \in Callers |-> NoJar]
    /\ cFound = [t \in Callers |-> FALSE]
    /\ jars = 0

Init == NewEventFeed(Feeds) /\ DispatchIdle /\ ClientsIdle

\* ---------------------------------------------------------------------------
\* Serve and poll.

\* Mutant of PollEnter: the events are kept from one poll() to the next.
PollEnter_KeepsEvents ==
    /\ pc = "loop"
    /\ cycle < CyclesOf(feed)
    /\ cycle' = cycle + 1
    /\ i' = 0
    /\ page' = 1
    /\ events' = events
    /\ poll_interval' = DurationMinusOne
    /\ err' = ErrNil
    /\ resp' = NoResponse
    /\ now' = 0
    /\ calls' = <<>>
    /\ pc' = "page"
    /\ UNCHANGED <<restVars, mainVars, feed, variant, jumps, queue, emitted, closes, ret, cancelled,
                   cancelAt, timer, wake>>

\* Serve calls poll(), which starts with no error, the interval -1, page 1 and
\* no events, and enters its loop.
PollEnter ==
    /\ pc = "loop"
    /\ cycle < CyclesOf(feed)
    /\ cycle' = cycle + 1
    /\ i' = 0
    /\ page' = 1
    /\ events' = <<>>
    /\ poll_interval' = DurationMinusOne
    /\ err' = ErrNil
    /\ resp' = NoResponse
    /\ now' = 0
    /\ calls' = <<>>
    /\ pc' = "page"
    /\ UNCHANGED <<restVars, mainVars, feed, variant, jumps, queue, emitted, closes, ret, cancelled, cancelAt, timer, wake>>

\* poll() calls ListEvents for opts.Page: the request is in flight.
ListEventsCall ==
    /\ pc = "page"
    /\ calls' = Append(calls, page)
    /\ pc' = "fetch"
    /\ UNCHANGED <<restVars, mainVars, feed, variant, cycle, i, page, events, poll_interval, err, resp, now, jumps,
                   queue, emitted, closes, ret, cancelled, cancelAt, timer, wake>>

\* What the fetch in flight can return.
Answers ==
    IF feed \in Feeds THEN Responses(feed, variant, page, jumps, cancelled)
    ELSE PacedResponses(feed, variant, cycle, page, cancelled)

\* ListEvents returns and poll() runs the rest of the loop body: the pacing
\* decision, the tests that leave the loop, the append and the next page. poll
\* returns to Serve ("polled") unless the loop goes round again.
ListEventsReturn ==
    /\ pc = "fetch"
    /\ \E r \in Answers :
       \E clock \in (IF r.err = ErrRateLimit THEN 0..MaxClock ELSE {0}) :
          LET b == pollLoopBody(variant, cycle, i, page, events, r, clock)
          IN  /\ resp' = r
              /\ now' = clock
              /\ poll_interval' = b.poll_interval
              /\ err' = b.err
              /\ events' = b.events
              /\ page' = b.page
              /\ i' = b.i
              /\ jumps' = IF r.err = ErrNil /\ r.nextPage \notin {0, page + 1}
                          THEN jumps + 1 ELSE jumps
              /\ pc' = IF b.again THEN "page" ELSE "polled"
    /\ UNCHANGED <<restVars, mainVars, feed, variant, cycle, calls, queue, emitted, closes, ret,
                   cancelled, cancelAt, timer, wake>>

\* Mutant of ReturnError: Serve sends the events poll() returned before it
\* returns the error.
ReturnError_SendsFirst ==
    /\ pc = "polled"
    /\ err # ErrNil
    /\ Len(queue) < defaultFeedCapacity
    /\ queue' = Append(queue, events)
    /\ emitted' = Append(emitted, events)
    /\ ret' = err
    /\ closes' = closes + 1
    /\ pc' = "done"
    /\ UNCHANGED <<restVars, mainVars, feed, variant, cycle, pollVars, cancelled, cancelAt, timer, wake>>

\* poll() returned an error: Serve returns it, and its deferred close runs.
ReturnError ==
    /\ pc = "polled"
    /\ err # ErrNil
    /\ ret' = err
    /\ closes' = closes + 1
    /\ pc' = "done"
    /\ UNCHANGED <<restVars, mainVars, feed, variant, cycle, pollVars, queue, emitted, cancelled, cancelAt, timer, wake>>

\* Mutant of Send: a send that does not wait; with the buffer full the batch is
\* dropped.
Send_DropsWhenFull ==
    /\ pc = "polled"
    /\ err = ErrNil
    /\ IF Len(queue) < defaultFeedCapacity
       THEN queue' = Append(queue, events) /\ emitted' = Append(emitted, events)
       ELSE UNCHANGED <<queue, emitted>>
    /\ timer' = "armed"
    /\ pc' = "select"
    /\ UNCHANGED <<restVars, mainVars, feed, variant, cycle, pollVars, closes, ret, cancelled,
                   cancelAt, wake>>

\* poll() returned no error: Serve sends the events on the channel, waiting
\* while the buffer is full, and enters the select, whose time.After arms a timer.
Send ==
    /\ pc = "polled"
    /\ err = ErrNil
    /\ Len(queue) < defaultFeedCapacity
    /\ queue' = Append(queue, events)
    /\ emitted' = Append(emitted, events)
    /\ timer' = "armed"
    /\ pc' = "select"
    /\ UNCHANGED <<restVars, mainVars, feed, variant, cycle, pollVars, closes, ret, cancelled, cancelAt, wake>>

\* The cases of the select that can proceed.
ReadyCases == (IF timer = "fired" THEN {"timer"} ELSE {})
              \cup (IF cancelled THEN {"done"} ELSE {})

\* The select looks at its cases: it takes one that can proceed, any of them
\* when both can; with none, Serve parks until the first of them can.
SelectGo ==
    /\ pc = "select"
    /\ IF ReadyCases = {} THEN wake' = "none" ELSE wake' \in ReadyCases
    /\ pc' = "parked"
    /\ UNCHANGED <<restVars, mainVars, feed, variant, cycle, pollVars, queue, emitted, closes, ret, cancelled, cancelAt, timer>>

\* The timer's time comes: a timer of a zero or negative duration is due at once,
\* any other after its duration, which the model does not measure. A parked
\* Serve that nothing woke yet is woken for the timer's case.
TimerExpire ==
    /\ timer = "armed"
    /\ timer' = "fired"
    /\ wake' = IF pc = "parked" /\ wake = "none" THEN "timer" ELSE wake
    /\ UNCHANGED <<restVars, mainVars, feed, variant, pc, cycle, pollVars, queue, emitted, closes, ret, cancelled, cancelAt>>

\* case <-time.After(poll_interval): Serve logs and continues with the next cycle.
Resume ==
    /\ pc = "parked"
    /\ wake = "timer"
    /\ pc' = "loop"
    /\ wake' = "none"
    /\ timer' = "off"
    /\ UNCHANGED <<restVars, mainVars, feed, variant, cycle, pollVars, queue, emitted, closes, ret, cancelled, cancelAt>>

\* Mutant of ReturnCancelled: the channel is closed before the return and again
\* by the deferred close.
ReturnCancelled_ClosesTwice ==
    /\ pc = "parked"
    /\ wake = "done"
    /\ ret' = ErrCanceled
    /\ closes' = closes + 2
    /\ pc' = "done"
    /\ wake' = "none"
    /\ UNCHANGED <<restVars, mainVars, feed, variant, cycle, pollVars, queue, emitted, cancelled, cancelAt, timer>>

\* Mutant of ReturnCancelled: the case leaves the select only, and the loop
\* goes on.
ReturnCancelled_LeavesSelect ==
    /\ pc = "parked"
    /\ wake = "done"
    /\ pc' = "loop"
    /\ wake' = "none"
    /\ timer' = "off"
    /\ UNCHANGED <<restVars, mainVars, feed, variant, cycle, pollVars, queue, emitted, closes, ret, cancelled,
                   cancelAt>>

\* Mutant of ReturnCancelled: Serve returns nil.
ReturnCancelled_ReturnsNil ==
    /\ pc = "parked"
    /\ wake = "done"
    /\ ret' = ErrNil
    /\ closes' = closes + 1
    /\ pc' = "done"
    /\ wake' = "none"
    /\ UNCHANGED <<restVars, mainVars, feed, variant, cycle, pollVars, queue, emitted, cancelled, cancelAt, timer>>

\* case <-f.ctx.Done(): Serve returns f.ctx.Err(), and its deferred close runs.
ReturnCancelled ==
    /\ pc = "parked"
    /\ wake = "done"
    /\ ret' = ErrCanceled
    /\ closes' = closes + 1
    /\ pc' = "done"
    /\ wake' = "none"
    /\ UNCHANGED <<restVars, mainVars, feed, variant, cycle, pollVars, queue, emitted, cancelled, cancelAt, timer>>

\* ---------------------------------------------------------------------------
\* The environment: the caller's context and the consumer of the channel.

\* The caller cancels the context while Serve runs. A parked Serve that nothing woke yet is woken
\* for the Done case.
Cancel ==
    /\ ~cancelled
    /\ pc # "done"
    /\ cancelled' = TRUE
    /\ cancelAt' = IF pc = "fetch" THEN "fetch"
                   ELSE IF pc = "parked" /\ wake = "none" /\ timer = "armed" THEN "sleep"
                   ELSE "other"
    /\ wake' = IF pc = "parked" /\ wake = "none" THEN "done" ELSE wake
    /\ UNCHANGED <<restVars, mainVars, feed, variant, pc, cycle, pollVars, queue, emitted, closes, ret, timer>>

\* main's range loop receives one batch from the channel.
Receive ==
    /\ mainState = "ranging"
    /\ queue # <<>>
    /\ queue' = Tail(queue)
    /\ received' = Append(received, Head(queue))
    /\ UNCHANGED <<restVars, mainState, feed, variant, pc, cycle, pollVars, emitted, closes, ret,
                   cancelled, cancelAt, timer, wake>>

\* main's range loop finds the channel closed and empty: the loop ends and main
\* returns.
RangeEnd ==
    /\ mainState = "ranging"
    /\ queue = <<>>
    /\ closes > 0
    /\ mainState' = "returned"
    /\ UNCHANGED <<restVars, received, feed, variant, pc, cycle, pollVars, queue, emitted, closes,
                   ret, cancelled, cancelAt, timer, wake>>

\* The main of the cached variant runs log.Panic(feed.Serve()) in Serve's
\* goroutine: once Serve has returned, the panic ends the process, main's range
\* loop with it. The main of the plain variant drops what Serve returns.
LogPanic ==
    /\ variant = "cached"
    /\ pc = "done"
    /\ mainState = "ranging"
    /\ mainState' = "crashed"
    /\ UNCHANGED <<restVars, received, feed, variant, pc, cycle, pollVars, queue, emitted, closes,
                   ret, cancelled, cancelAt, timer, wake>>

Next ==
    \/ PollEnter
    \/ ListEventsCall
    \/ ListEventsReturn
    \/ ReturnError
    \/ Send
    \/ SelectGo
    \/ TimerExpire
    \/ Resume
    \/ ReturnCancelled
    \/ Cancel
    \/ Receive
    \/ RangeEnd
    \/ LogPanic

Spec == Init /\ [][Next]_vars

\* Serve against the paced feeds.
InitPaced == NewEventFeed(PacedFeeds) /\ DispatchIdle /\ ClientsIdle

SpecPaced == InitPaced /\ [][Next]_vars

\* ---------------------------------------------------------------------------
\* Vocabulary of the properties.

\* P1 ++ P2 ++ ... for the pages ps of cycle cy, in the order of ps.
RECURSIVE PagesConcat(_, _)
PagesConcat(cy, ps) ==
    IF ps = <<>> THEN <<>> ELSE EventsOfPage(cy, ps[1]) \o PagesConcat(cy, Tail(ps))

\* A sequence without its last element.
Front(sq) == SubSeq(sq, 1, Len(sq) - 1)

\* Serve is back at the top of its loop after a cycle.
Resumed == pc = "loop" /\ cycle > 0

\* poll() has returned to Serve, or Serve has gone on from there, and resp is
\* the response of the last fetch of the cycle.
CycleOver == pc \in {"polled", "select", "parked", "done"} \/ Resumed

\* The last fetch returned a page that poll() took: no error, and no cached
\* response in the cached variant.
PageTaken == resp.err = ErrNil /\ ~(variant = "cached" /\ resp.fromCache)

\* The batch of this cycle has been sent and is the last of emitted.
BatchSent ==
    \/ pc \in {"select", "parked"}
    \/ Resumed
    \/ pc = "done" /\ resp.err \in {ErrNil, ErrRateLimit}

\* ---------------------------------------------------------------------------
\* processBatch and rateLimit (main.go), run on one batch of Serve.

\* A sequence in reverse order.
RECURSIVE Reverse(_)
Reverse(sq) == IF sq = <<>> THEN <<>> ELSE Reverse(Tail(sq)) \o <<sq[1]>>

\* Long division of a vector of limbs, most significant limb first, by a small
\* positive n, rem being the remainder carried in.
RECURSIVE LimbDivFrom(_, _, _)
LimbDivFrom(x, n, rem) ==
    IF x = <<>> THEN <<>>
    ELSE LET t == rem * LimbBase + x[1]
         IN  <<t \div n>> \o LimbDivFrom(Tail(x), n, t % n)

\* x / n for a machine integer x >= 0 and a small n > 0.
LimbDiv(x, n) == Reverse(LimbDivFrom(Reverse(x), n, 0))

\* int(60*time.Second)
SixtySeconds == MulSecond(LimbOfInt(60, Limbs64))

\* The batches processBatch is run on: the batches Serve sends, the events of
\* the first pages of a cycle, of none for the empty batch.
DispatchBatches == {PagesConcat(1, [k \in 1..n |-> k]) : n \in 0..MaxDispatchPages}

\* processBatch(batch) has called rateLimit(batch), which has made the channel
\* of capacity len(batch), started its goroutine and returned; processBatch
\* ranges over the channel.
InitDispatch ==
    /\ NewEventFeed({"short"})
    /\ ClientsIdle
    /\ dBatch \in DispatchBatches
    /\ dpc = "start"
    /\ dNext = 0
    /\ dTick = LimbZero(Limbs64)
    /\ tickC = FALSE
    /\ dFeed = <<>>
    /\ dClosed = 0
    /\ dGot = <<>>
    /\ dRange = "ranging"

\* The goroutine computes tick := int(60*time.Second) / n, which panics for
\* n = 0 (integer divide by zero), and makes the ticker, which panics for a
\* period that is not positive; then it enters its loop over the events.
TickerNew ==
    /\ dpc = "start"
    /\ LET n == Len(dBatch)
       IN  IF n = 0
           THEN dpc' = "panic" /\ UNCHANGED dTick
           ELSE LET tick == LimbDiv(SixtySeconds, n)
                IN  IF LimbIsNeg(tick) \/ tick = LimbZero(Limbs64)
                    THEN dpc' = "panic" /\ UNCHANGED dTick
                    ELSE dpc' = "wait" /\ dTick' = tick
    /\ UNCHANGED <<serveVars, clientVars, dBatch, dNext, tickC, dFeed, dClosed, dGot, dRange>>

\* The ticker's period has passed: a tick is put in ticker.C, which holds one;
\* a tick that finds it full is dropped.
TickerFire ==
    /\ dpc \in {"wait", "send"}
    /\ ~tickC
    /\ tickC' = TRUE
    /\ UNCHANGED <<serveVars, clientVars, dBatch, dpc, dNext, dTick, dFeed, dClosed, dGot, dRange>>

\* <-ticker.C
TickerReceive ==
    /\ dpc = "wait"
    /\ tickC
    /\ tickC' = FALSE
    /\ dpc' = "send"
    /\ UNCHANGED <<serveVars, clientVars, dBatch, dNext, dTick, dFeed, dClosed, dGot, dRange>>

\* feed <- e, then the next event of the range, or the end of the loop.
FeedSend ==
    /\ dpc = "send"
    /\ Len(dFeed) < Len(dBatch)
    /\ dFeed' = Append(dFeed, dBatch[dNext + 1])
    /\ dNext' = dNext + 1
    /\ dpc' = IF dNext + 1 = Len(dBatch) THEN "close" ELSE "wait"
    /\ UNCHANGED <<serveVars, clientVars, dBatch, dTick, tickC, dClosed, dGot, dRange>>

\* close(feed), and the deferred ticker.Stop().
FeedClose ==
    /\ dpc = "close"
    /\ dClosed' = dClosed + 1
    /\ dpc' = "done"
    /\ UNCHANGED <<serveVars, clientVars, dBatch, dNext, dTick, tickC, dFeed, dGot, dRange>>

\* processBatch's range loop receives an event and starts processEvent on it;
\* a panic of the goroutine has ended the process.
ProcessReceive ==
    /\ dRange = "ranging"
    /\ dpc # "panic"
    /\ dFeed # <<>>
    /\ dGot' = Append(dGot, Head(dFeed))
    /\ dFeed' = Tail(dFeed)
    /\ UNCHANGED <<serveVars, clientVars, dBatch, dpc, dNext, dTick, tickC, dClosed, dRange>>

\* processBatch's range loop finds the channel closed and empty, and
\* processBatch returns.
ProcessReturn ==
    /\ dRange = "ranging"
    /\ dpc # "panic"
    /\ dFeed = <<>>
    /\ dClosed > 0
    /\ dRange' = "returned"
    /\ UNCHANGED <<serveVars, clientVars, dBatch, dpc, dNext, dTick, tickC, dFeed, dClosed, dGot>>

NextDispatch ==
    \/ TickerNew
    \/ TickerFire
    \/ TickerReceive
    \/ FeedSend
    \/ FeedClose
    \/ ProcessReceive
    \/ ProcessReturn

SpecDispatch == InitDispatch /\ [][NextDispatch]_vars

\* ---------------------------------------------------------------------------
\* clientFor (main.go), called concurrently by the processEvent goroutines.
\* cMu is a read/write lock: any number of readers or one writer.

\* Every caller is about to call clientFor for some user.
InitClients ==
    /\ NewEventFeed({"short"})
    /\ DispatchIdle
    /\ cookies = [u \in Users |-> NoJar]
    /\ cReaders = {}
    /\ cWriter = FALSE
    /\ cpc = [t \in Callers |-> "call"]
    /\ cUser \in [Callers -> Users]
    /\ cJar = [t \in Callers |-> NoJar]
    /\ cFound = [t \in Callers |-> FALSE]
    /\ jars = 0

\* cMu.RLocker().Lock()
ClientRLock(t) ==
    /\ cpc[t] = "call"
    /\ ~cWriter
    /\ cReaders' = cReaders \cup {t}
    /\ cpc' = [cpc EXCEPT ![t] = "read"]
    /\ UNCHANGED <<serveVars, dispatchVars, cookies, cWriter, cUser, cJar, cFound, jars>>

\* jar, found := cookies[user]
ClientLookup(t) ==
    /\ cpc[t] = "read"
    /\ cJar' = [cJar EXCEPT ![t] = cookies[cUser[t]]]
    /\ cFound' = [cFound EXCEPT ![t] = cookies[cUser[t]] # NoJar]
    /\ cpc' = [cpc EXCEPT ![t] = "runlock"]
    /\ UNCHANGED <<serveVars, dispatchVars, cookies, cReaders, cWriter, cUser, jars>>

\* cMu.RLocker().Unlock(), then the test of found.
ClientRUnlock(t) ==
    /\ cpc[t] = "runlock"
    /\ cReaders' = cReaders \ {t}
    /\ cpc' = [cpc EXCEPT ![t] = IF cFound[t] THEN "return" ELSE "new"]
    /\ UNCHANGED <<serveVars, dispatchVars, cookies, cWriter, cUser, cJar, cFound, jars>>

\* jar, _ = cookiejar.New(nil): a jar that no one else has.
ClientNewJar(t) ==
    /\ cpc[t] = "new"
    /\ jars' = jars + 1
    /\ cJar' = [cJar EXCEPT ![t] = jars + 1]
    /\ cpc' = [cpc EXCEPT ![t] = "lock"]
    /\ UNCHANGED <<serveVars, dispatchVars, cookies, cReaders, cWriter, cUser, cFound>>

\* cMu.Lock()
ClientLock(t) ==
    /\ cpc[t] = "lock"
    /\ ~cWriter
    /\ cReaders = {}
    /\ cWriter' = TRUE
    /\ cpc' = [cpc EXCEPT ![t] = "store"]
    /\ UNCHANGED <<serveVars, dispatchVars, cookies, cReaders, cUser, cJar, cFound, jars>>

\* cookies[user] = jar, without looking at the map again.
ClientStore(t) ==
    /\ cpc[t] = "store"
    /\ cookies' = [cookies EXCEPT ![cUser[t]] = cJar[t]]
    /\ cpc' = [cpc EXCEPT ![t] = "unlock"]
    /\ UNCHANGED <<serveVars, dispatchVars, cReaders, cWriter, cUser, cJar, cFound, jars>>

\* cMu.Unlock()
ClientUnlock(t) ==
    /\ cpc[t] = "unlock"
    /\ cWriter' = FALSE
    /\ cpc' = [cpc EXCEPT ![t] = "return"]
    /\ UNCHANGED <<serveVars, dispatchVars, cookies, cReaders, cUser, cJar, cFound, jars>>

\* return &http.Client{Jar: jar}
ClientReturn(t) ==
    /\ cpc[t] = "return"
    /\ cpc' = [cpc EXCEPT ![t] = "done"]
    /\ UNCHANGED <<serveVars, dispatchVars, cookies, cReaders, cWriter, cUser, cJar, cFound, jars>>

NextClients ==
    \E t \in Callers :
        \/ ClientRLock(t)
        \/ ClientLookup(t)
        \/ ClientRUnlock(t)
        \/ ClientNewJar(t)
        \/ ClientLock(t)
        \/ ClientStore(t)
        \/ ClientUnlock(t)
        \/ ClientReturn(t)

SpecClients == InitClients /\ [][NextClients]_vars

\* ---------------------------------------------------------------------------
\* C1: a poll cycle never issues more than maximumEventsPages (10) fetches; a
\* cycle whose every fetch returned a page with a successor (no sentinel, rate
\* limit, cached response or failure) ends with exactly 10 fetches and no error,
\* and the batch Serve emits for it holds the events of all 10 pages.
C1_PageCeiling ==
    /\ Len(calls) <= maximumEventsPages
    /\ (CycleOver /\ PageTaken /\ resp.nextPage # 0) =>
          /\ Len(calls) = maximumEventsPages
          /\ err = ErrNil
          /\ events = PagesConcat(cycle, calls)
          /\ BatchSent => emitted[Len(emitted)] = PagesConcat(cycle, calls)

\* C1 witness: a cycle cut by the page limit, its batch of 10 pages sent.
C1_Witness ==
    /\ pc = "parked"
    /\ PageTaken
    /\ resp.nextPage # 0
    /\ Len(calls) = maximumEventsPages
    /\ emitted # <<>>
    /\ Len(emitted[Len(emitted)]) >= maximumEventsPages

\* C2: a cycle whose every fetch returned a page and whose last page has the
\* next cursor 0 made one fetch per page, each for the cursor the page before it
\* named, and poll() returns, without error, the pages' events in page order and,
\* inside a page, in the page's order.
C2_Concatenation ==
    /\ (CycleOver /\ PageTaken /\ resp.nextPage = 0 /\ calls # <<>>) =>
          /\ err = ErrNil
          /\ Len(calls) = i + 1
          /\ Len(calls) <= maximumEventsPages
          /\ events = PagesConcat(cycle, calls)
          /\ jumps = 0 => calls = [k \in 1..Len(calls) |-> k]
    /\ (pc \in {"page", "fetch"} /\ Len(calls) > (IF pc = "fetch" THEN 1 ELSE 0)) =>
          /\ PageTaken
          /\ resp.nextPage = page
          /\ page # 0

\* C2 witness: a feed of three pages, all fetched, the last naming no successor.
C2_Witness ==
    /\ pc = "polled"
    /\ PageTaken
    /\ resp.nextPage = 0
    /\ calls = <<1, 2, 3>>
    /\ events = <<<<cycle, 1, 1>>, <<cycle, 2, 1>>, <<cycle, 2, 2>>>> \o EventsOfPage(cycle, 3)

\* C3: when a fetch returns a rate-limit error the pagination stops there, poll()
\* returns no error and the events of the pages before it, Serve sends that
\* batch and goes to its select; Serve never returns a rate-limit error, and after
\* such a cycle it returns only for a cancellation.
C3_RateLimitStops ==
    /\ ret # ErrRateLimit
    /\ err # ErrRateLimit
    /\ resp.err = ErrRateLimit =>
          /\ CycleOver
          /\ err = ErrNil
          /\ events = PagesConcat(cycle, Front(calls))
          /\ BatchSent => emitted[Len(emitted)] = PagesConcat(cycle, Front(calls))
          /\ pc = "done" => ret = ErrCanceled

\* C3 witness: the third fetch was rate-limited, the batch of the first two pages
\* is sent and Serve waits in its select.
C3_Witness ==
    /\ resp.err = ErrRateLimit
    /\ pc = "parked"
    /\ Len(calls) = 3
    /\ emitted[Len(emitted)] = PagesConcat(cycle, <<1, 2>>)
    /\ ret = "running"

\* C4 (as claimed): the delay of a rate-limit decision, which Serve's timer is
\* armed with, is max(0, T - now) and never negative.
C4_Original ==
    (CycleOver /\ resp.err = ErrRateLimit) =>
        /\ ~LimbIsNeg(poll_interval)
        /\ poll_interval =
              MulSecond(LimbOfInt(IF resp.reset > now THEN resp.reset - now ELSE 0, Limbs64))

\* C4 (amended): the delay of a rate-limit decision, which Serve's timer is armed
\* with, is T - now with its sign: negative exactly when the reset time T is
\* before the clock's reading, zero exactly when they are equal.
C4_SignedDelay ==
    (CycleOver /\ resp.err = ErrRateLimit) =>
        /\ poll_interval = MulSecond(LimbOfInt(resp.reset - now, Limbs64))
        /\ LimbIsNeg(poll_interval) <=> resp.reset < now
        /\ poll_interval = LimbZero(Limbs64) <=> resp.reset = now
        /\ resp.reset - now = 1 => poll_interval = <<51712, 15258, 0, 0>>
        /\ resp.reset - now = -1 => poll_interval = <<13824, 50277, 65535, 65535>>

\* C4 witness: Serve waits in its select on a timer armed with a negative delay,
\* the rate limit's reset time being past.
C4_Witness ==
    /\ pc = "parked"
    /\ timer = "armed"
    /\ resp.err = ErrRateLimit
    /\ resp.reset < now
    /\ LimbIsNeg(poll_interval)

\* C5: when a fetch fails with an error that is no rate-limit error, poll()
\* returns it, Serve returns that very error and closes the channel without
\* sending the cycle's batch, earlier pages included; once Serve has returned
\* nothing more is fetched, sent or closed.
C5_FatalStops ==
    /\ [](resp.err \notin {ErrNil, ErrRateLimit} =>
            /\ pc \in {"polled", "done"}
            /\ err = resp.err
            /\ Len(emitted) = cycle - 1
            /\ pc = "done" => (ret = resp.err /\ closes = 1))
    /\ [][pc = "done" => UNCHANGED <<pc, cycle, calls, emitted, closes, ret>>]_vars

\* C5 witness: the third fetch failed after two pages with events; Serve has
\* returned the error and nothing of the cycle was sent.
C5_Witness ==
    /\ pc = "done"
    /\ resp.err = ErrOther
    /\ ret = ErrOther
    /\ Len(calls) = 3
    /\ events # <<>>
    /\ emitted = <<>>
    /\ closes = 1

\* C6: the channel is closed at most once, exactly when Serve returns, which it
\* does only with a fetch error or the context's error; nothing is sent on the
\* channel once it is closed.
C6_ClosedOnce ==
    /\ [](/\ closes <= 1
          /\ closes = 1 <=> pc = "done"
          /\ pc = "done" <=> ret # "running"
          /\ ret \in {"running", ErrOther, ErrCanceled})
    /\ [][closes > 0 => (emitted' = emitted /\ Len(queue') <= Len(queue))]_vars

\* C6 witness: Serve returned for a cancellation after sending a batch, and the
\* channel is closed.
C6_Witness ==
    /\ closes = 1
    /\ ret = ErrCanceled
    /\ emitted # <<>>

\* C7: a cancellation that arrives while Serve is parked in its select with the
\* timer not fired wakes it for the Done case; from there Serve can return at
\* once, the timer still armed, and its only step is to return the context's
\* error and close the channel, once; no fetch follows.
C7_CancelWhileSleeping ==
    /\ [][(pc = "parked" /\ wake = "none" /\ timer = "armed" /\ ~cancelled /\ cancelled')
             => (pc' = "parked" /\ wake' = "done" /\ cancelAt' = "sleep")]_vars
    /\ [](cancelAt = "sleep" =>
             \/ pc = "parked" /\ wake = "done" /\ closes = 0 /\ ENABLED ReturnCancelled
             \/ pc = "done" /\ ret = ErrCanceled /\ closes = 1)
    /\ [][cancelAt = "sleep" => calls' = calls /\ cycle' = cycle]_vars

\* C7 witness: cancelled while parked, Serve has returned the context's error
\* and closed the channel with the timer still armed.
C7_Witness ==
    /\ cancelAt = "sleep"
    /\ pc = "done"
    /\ ret = ErrCanceled
    /\ timer = "armed"
    /\ closes = 1
    /\ calls # <<>>

\* C8 (as claimed): a cancellation signalled while a fetch is in flight never
\* makes poll() fail with the context's error, and if Serve then returns the
\* context's error it has sent the batch of every cycle it started.
C8_Original ==
    cancelAt = "fetch" =>
        /\ err # ErrCanceled
        /\ (pc = "done" /\ ret = ErrCanceled) => Len(emitted) = cycle

\* C8 (amended): poll() and Serve test the cancellation nowhere but in the select.
\* With the context cancelled, a fetch that returns a page or a rate limit is
\* handled as without cancellation (the pagination goes on or leaves by its
\* normal exits, and the batch is sent); but the fetch is made with that context
\* and may fail with the context's error, which ends the cycle and Serve like any
\* other fetch error, the batch not sent. Serve returns the context's error only
\* from the select or for such a failed fetch.
C8_CancelSeenAtSelect ==
    /\ [][(pc = "fetch" /\ cancelled /\ pc' # "fetch") =>
             IF resp'.err \in {ErrOther, ErrCanceled}
             THEN pc' = "polled" /\ err' = resp'.err /\ events' = events
             ELSE IF resp'.err = ErrRateLimit \/ (variant = "cached" /\ resp'.fromCache)
             THEN pc' = "polled" /\ err' = ErrNil /\ events' = events
             ELSE /\ err' = ErrNil
                  /\ events' = events \o EventsOfPage(cycle, page)
                  /\ pc' = IF resp'.nextPage # 0 /\ i + 1 < maximumEventsPages
                           THEN "page" ELSE "polled"]_vars
    /\ [][(pc = "polled" /\ cancelled /\ pc' # "polled") =>
             IF err = ErrNil
             THEN pc' = "select" /\ emitted' = Append(emitted, events) /\ ret' = "running"
             ELSE pc' = "done" /\ emitted' = emitted /\ ret' = err]_vars
    /\ [][(ret = "running" /\ ret' = ErrCanceled) =>
             \/ pc = "parked" /\ wake = "done"
             \/ pc = "polled" /\ resp.err = ErrCanceled]_vars

\* C8 witness: the context was cancelled during a fetch of a long feed's cycle;
\* the pagination went on to three pages, the batch is sent and the select has
\* taken the Done case.
C8_Witness ==
    /\ feed = "long"
    /\ cancelAt = "fetch"
    /\ pc = "parked"
    /\ wake = "done"
    /\ PageTaken
    /\ calls = <<1, 2, 3>>
    /\ emitted = <<PagesConcat(cycle, calls)>>

\* C9 (as claimed): Serve returns the context's error exactly when it returned
\* from the select; after a fetch failure the value returned is never the
\* context's error.
C9_Original ==
    pc = "done" => (ret = ErrCanceled <=> resp.err \in {ErrNil, ErrRateLimit})

\* C9 (amended): Serve returns the context's error only once the context is
\* cancelled, and it does so from the select (the cycle's batch sent) or because
\* a fetch failed with the context's error (the batch not sent): the value does
\* not tell the two apart. Any other fetch error is returned as it is and is
\* not the context's error.
C9_Outcomes ==
    /\ ret = ErrCanceled => cancelled
    /\ pc = "done" =>
          IF resp.err \in {ErrNil, ErrRateLimit}
          THEN ret = ErrCanceled /\ Len(emitted) = cycle
          ELSE ret = resp.err /\ Len(emitted) = cycle - 1
    /\ (pc = "done" /\ resp.err = ErrOther) => ret # ErrCanceled

\* C9 witness: a fetch made with the cancelled context failed with the context's
\* error, and Serve returned it from its error path, the batch not sent.
C9_Witness ==
    /\ pc = "done"
    /\ ret = ErrCanceled
    /\ resp.err = ErrCanceled
    /\ Len(emitted) = cycle - 1

\* A string that is an optional sign followed by decimal digits.
IntegerString(h) ==
    LET digits == IF h # <<>> /\ h[1] \in {"+", "-"} THEN Tail(h) ELSE h
    IN  digits # <<>> /\ \A k \in 1..Len(digits) : IsDigit(digits[k])

\* n * 10^9 for the integer n that h writes, exactly: on twice the limbs of an
\* int64, which hold it without wrapping for a string int holds.
RECURSIVE ExactMagnitude(_)
ExactMagnitude(digits) ==
    IF digits = <<>> THEN LimbZero(Limbs64 + Limbs64)
    ELSE LimbMulAdd(ExactMagnitude(Front(digits)), 10, DigitVal(digits[Len(digits)]))

ExactSeconds(h) ==
    LET digits == IF h[1] \in {"+", "-"} THEN Tail(h) ELSE h
        nanos  == MulSecond(ExactMagnitude(digits))
    IN  IF h[1] = "-" THEN LimbNeg(nanos) ELSE nanos

\* Whether int (64 bits) holds the integer that h writes.
FitsInt(h) ==
    LET digits == IF h[1] \in {"+", "-"} THEN Tail(h) ELSE h
    IN  InIntRange(Magnitude(digits), h[1] = "-")

\* A Duration as a number on twice the limbs, its sign extended.
RECURSIVE SignLimbs(_, _)
SignLimbs(d, n) ==
    IF n = 0 THEN <<>>
    ELSE <<IF LimbIsNeg(d) THEN LimbBase - 1 ELSE 0>> \o SignLimbs(d, n - 1)

SignExtend(d) == d \o SignLimbs(d, Limbs64)

\* The pacing decision of the last fetch has been made: resp, poll_interval and
\* err are those of that fetch.
Decided == Len(calls) > (IF pc = "fetch" THEN 1 ELSE 0)

\* C10 (as claimed): after a fetch without error the delay is n seconds when the
\* poll-interval header holds the integer n (for every n that int holds) and 60
\* seconds when the header is absent, empty or not a number; no error is raised,
\* and a page with a successor below the page limit does not stop the pagination.
C10_HeaderDelay ==
    (Decided /\ resp.err = ErrNil) =>
        LET h == HeaderGet(resp.pollHeader)
        IN  /\ err = ErrNil
            /\ IF IntegerString(h)
               THEN FitsInt(h) => SignExtend(poll_interval) = ExactSeconds(h)
               ELSE poll_interval = <<22528, 63559, 13, 0>>
            /\ h = <<"4", "5">> => poll_interval = <<33280, 31285, 10, 0>>
            /\ (PageTaken /\ resp.nextPage # 0 /\ Len(calls) < maximumEventsPages)
                  => pc \in {"page", "fetch"}

\* The cycle's batch, if it has one, is sent: Serve is past its send, or
\* returned from the select.
PastSend ==
    \/ pc \in {"select", "parked"}
    \/ Resumed
    \/ pc = "done" /\ resp.err \in {ErrNil, ErrRateLimit}

\* C11: every cycle that poll() ends without error sends exactly one batch,
\* empty or not, before the select, and a cycle that ends with an error sends
\* none; with defaultFeedCapacity (16) batches unread the send waits until main
\* takes one; the channel never holds more than 16 batches, every batch sent is
\* received or still in the channel, and main receives the batches in the order
\* of the cycles.
C11_Backpressure ==
    /\ [](/\ Len(queue) <= defaultFeedCapacity
          /\ received \o queue = emitted
          /\ Len(emitted) = IF PastSend THEN cycle ELSE IF cycle = 0 THEN 0 ELSE cycle - 1
          /\ \A k \in 1..Len(emitted) : \A j \in 1..Len(emitted[k]) : emitted[k][j][1] = k
          /\ (pc = "polled" /\ err = ErrNil /\ Len(queue) = defaultFeedCapacity)
                => ~ENABLED Send)
    /\ [][(pc = "polled" /\ pc' # "polled") =>
             IF err = ErrNil
             THEN /\ pc' = "select"
                  /\ Len(queue) < defaultFeedCapacity
                  /\ queue' = Append(queue, events)
                  /\ emitted' = Append(emitted, events)
             ELSE pc' = "done" /\ UNCHANGED <<queue, emitted>>]_vars
    /\ [][(pc # "polled" /\ queue' # queue) =>
             /\ queue # <<>>
             /\ queue' = Tail(queue)
             /\ received' = Append(received, Head(queue))
             /\ emitted' = emitted]_vars

\* C11 witness: 16 batches wait in the channel, an empty one among them, main
\* has received one, and Serve waits in its send with the next batch.
C11_Witness ==
    /\ Len(queue) = defaultFeedCapacity
    /\ pc = "polled"
    /\ err = ErrNil
    /\ ~ENABLED Send
    /\ received # <<>>
    /\ \E k \in 1..Len(queue) : queue[k] = <<>>
    /\ \E k \in 1..Len(queue) : queue[k] # <<>>

\* C12: in the cached variant a page that comes back without error and marked
\* as served from the cache ends the pagination at once: the page's events are
\* not appended, the events of the pages before it stay, poll() returns no
\* error, Serve sends that batch and arms its timer with the poll interval of
\* the cached response (its header parsed, or the default), and returns no error
\* of the fetch.
C12_CacheHitStops ==
    (variant = "cached" /\ resp.err = ErrNil /\ resp.fromCache) =>
        /\ CycleOver
        /\ pc # "polled" => PastSend
        /\ err = ErrNil
        /\ events = PagesConcat(cycle, Front(calls))
        /\ PastSend => emitted[Len(emitted)] = PagesConcat(cycle, Front(calls))
        /\ poll_interval = pollIntervalFromResponse(resp)
        /\ resp.pollHeader = << <<"4", "5">> >> => poll_interval = <<33280, 31285, 10, 0>>
        /\ resp.pollHeader \in {<<>>, << <<>> >>, << <<"a", "b", "c">> >>}
              => poll_interval = <<22528, 63559, 13, 0>>
        /\ pc = "done" => ret = ErrCanceled

\* C12 witness: the third fetch of the cached variant came from the cache with
\* the header 45; the batch of the first two pages is sent and Serve waits in
\* its select on a timer of 45 seconds.
C12_Witness ==
    /\ variant = "cached"
    /\ resp.err = ErrNil
    /\ resp.fromCache
    /\ resp.pollHeader = << <<"4", "5">> >>
    /\ resp.nextPage # 0
    /\ pc = "parked"
    /\ timer = "armed"
    /\ Len(calls) = 3
    /\ emitted[Len(emitted)] = PagesConcat(cycle, <<1, 2>>)
    /\ poll_interval = <<33280, 31285, 10, 0>>

\* C13 (as claimed): once Serve has returned for a fetch error or a cancellation
\* and closed the channel, main's read loop is over only when main has received,
\* in order, every batch sent before the close and none is left in the channel.
C13_ConsumerDrains ==
    (closes > 0 /\ mainState # "ranging") =>
        /\ received = emitted
        /\ queue = <<>>

\* The ways poll() leaves its loop, read off the last response: an error that is
\* no rate limit; a rate limit or, in the cached variant, a cached page; a page
\* taken that names no next page; a page taken that names one, the loop counter
\* having reached maximumEventsPages.
ExitFatal == resp.err \notin {ErrNil, ErrRateLimit}

ExitStopEarly ==
    \/ resp.err = ErrRateLimit
    \/ variant = "cached" /\ resp.err = ErrNil /\ resp.fromCache

ExitSentinel == PageTaken /\ resp.nextPage = 0

ExitCeiling == PageTaken /\ resp.nextPage # 0 /\ i = maximumEventsPages

\* How many of the predicates ps hold.
HowMany(ps) == Cardinality({k \in 1..Len(ps) : ps[k]})

\* C14 (as claimed): a cycle whose loop is over left it by exactly one of three
\* exits: the next page is 0, a rate limit or cached page, an error.
C14_Original ==
    CycleOver => HowMany(<<ExitSentinel, ExitStopEarly, ExitFatal>>) = 1

\* C14 (amended): a cycle whose loop is over left it by exactly one of four
\* exits: the next page is 0, a rate limit or cached page, an error, or the page
\* limit (10 fetches made, the last page naming a next page); only the error
\* exit returns an error; and while the loop runs none of the four holds of the
\* page before.
C14_FourExits ==
    /\ CycleOver =>
          /\ HowMany(<<ExitSentinel, ExitStopEarly, ExitFatal, ExitCeiling>>) = 1
          /\ ExitFatal <=> err # ErrNil
          /\ ExitCeiling => Len(calls) = maximumEventsPages
          /\ ~ExitCeiling => i < maximumEventsPages
    /\ (pc \in {"page", "fetch"} /\ Decided) =>
          /\ HowMany(<<ExitSentinel, ExitStopEarly, ExitFatal, ExitCeiling>>) = 0
          /\ PageTaken
          /\ resp.nextPage # 0
          /\ i < maximumEventsPages
          /\ err = ErrNil

\* C14 witness: poll() has returned by the page limit, which is none of the
\* three other exits.
C14_Witness ==
    /\ pc = "polled"
    /\ ExitCeiling
    /\ ~ExitSentinel
    /\ ~ExitStopEarly
    /\ ~ExitFatal
    /\ Len(calls) = maximumEventsPages
    /\ err = ErrNil

\* Some page was fetched twice during this poll.
Revisited == \E a, b \in 1..Len(calls) : a < b /\ calls[a] = calls[b]

\* C15 (as claimed): whatever next pages the feed names, the first fetch of a
\* cycle is for page 1, every later one for the page the fetch before named, and
\* no page is fetched twice in the cycle.
C15_Original ==
    /\ calls # <<>> => calls[1] = 1
    /\ (pc = "fetch" /\ Len(calls) > 1) => calls[Len(calls)] = resp.nextPage
    /\ ~Revisited

\* C15 (amended): the first fetch of a cycle is for page 1 and every later one
\* for the page the fetch before named, which poll() does not compare with the
\* pages it has fetched: while the feed names the following page each time, the
\* pages fetched are 1, 2, 3, ... and none is fetched twice; a page is fetched
\* twice only when the feed has named a page out of sequence, and then poll()
\* does fetch it again, within the page limit.
C15_CursorChain ==
    /\ [](/\ calls # <<>> => calls[1] = 1
          /\ (pc = "fetch" /\ Len(calls) > 1) => calls[Len(calls)] = resp.nextPage
          /\ (pc = "page" /\ calls # <<>>) => page = resp.nextPage
          /\ jumps = 0 => calls = [k \in 1..Len(calls) |-> k]
          /\ Revisited => jumps > 0
          /\ Len(calls) <= maximumEventsPages)
    /\ [][(pc = "page" /\ pc' = "fetch") =>
             calls' = Append(calls, IF calls = <<>> THEN 1 ELSE resp.nextPage)]_vars
    /\ [][(pc = "fetch" /\ pc' = "page") => page' = resp'.nextPage]_vars

\* C15 witness: the feed named page 1 again after page 2, and poll() is
\* fetching it a second time.
C15_Witness ==
    /\ pc = "fetch"
    /\ calls = <<1, 2, 1>>
    /\ resp.nextPage = 1
    /\ jumps = 1

\* The delay of the pacing decision on the response r, the clock reading c.
DecisionDelay(r, c) ==
    IF r.err = ErrRateLimit THEN MulSecond(LimbOfInt(r.reset - c, Limbs64))
    ELSE pollIntervalFromResponse(r)

PagesTaken == IF PageTaken THEN calls ELSE Front(calls)

\* C17: every poll() starts with page 1, no events, the loop counter 0 and no
\* fetch made, whatever ended the cycle before (a rate limit, a cached page, the
\* page limit); the events poll() holds and the batch Serve sends are those of
\* pages fetched during that very cycle, and each cycle may again fetch up to
\* the page limit.
C17_FreshCycle ==
    /\ [][(pc = "loop" /\ pc' # "loop") =>
             /\ cycle' = cycle + 1
             /\ page' = 1
             /\ events' = <<>>
             /\ i' = 0
             /\ calls' = <<>>
             /\ err' = ErrNil]_vars
    /\ [](/\ calls # <<>> => calls[1] = 1
          /\ pc = "page" /\ calls = <<>> => page = 1 /\ i = 0 /\ events = <<>>
          /\ Len(calls) <= maximumEventsPages
          /\ \A j \in 1..Len(events) : events[j][1] = cycle
          /\ \A k \in 1..Len(emitted) : \A j \in 1..Len(emitted[k]) : emitted[k][j][1] = k
          /\ (CycleOver /\ calls # <<>>) => events = PagesConcat(cycle, PagesTaken)
          /\ PastSend => emitted[Len(emitted)] = PagesConcat(cycle, PagesTaken))

\* C17 witness: the first cycle was cut by the page limit, and the second,
\* started at page 1, has fetched ten pages again and sent their events alone.
C17_Witness ==
    /\ feed = "chain"
    /\ cycle = 2
    /\ pc = "parked"
    /\ Len(calls) = maximumEventsPages
    /\ calls[1] = 1
    /\ emitted = <<PagesConcat(1, calls), PagesConcat(2, calls)>>

\* C18: the two variants run the same Serve and differ in poll()'s loop body
\* only; on every fetch result that is not marked as cached, whatever the state
\* poll() is in, the loop body of either variant computes what the running
\* variant did: the same delay (for a rate limit the time to the reset, read in
\* the response by one and in the error by the other), the same error, events,
\* next page and loop counter, and the same decision to go on or return. From
\* the same start the two therefore make the same fetches, send the same
\* batches, arm the same timers and return the same value. The plain variant
\* is never given a response marked as cached.
C18_VariantsAgree ==
    /\ [][(pc = "fetch" /\ pc' # "fetch" /\ ~resp'.fromCache) =>
             \A v \in Variants :
                LET b == pollLoopBody(v, cycle, i, page, events, resp', now')
                IN  /\ b.poll_interval = poll_interval'
                    /\ b.err = err'
                    /\ b.events = events'
                    /\ b.page = page'
                    /\ b.i = i'
                    /\ b.again <=> pc' = "page"]_vars
    /\ [](variant = "plain" => ~resp.fromCache)
    /\ [](resp.err = ErrRateLimit =>
             /\ RateReset("cached", resp) = RateReset("plain", resp)
             /\ CycleOver
             /\ poll_interval = MulSecond(LimbOfInt(RateReset(variant, resp) - now, Limbs64)))

\* C18 witness: the plain variant was rate-limited on its second fetch, with two
\* seconds to the reset read in the error, and waits on a timer of two seconds
\* after sending the first page.
C18_Witness ==
    /\ variant = "plain"
    /\ resp.err = ErrRateLimit
    /\ resp.errReset = 2
    /\ now = 0
    /\ poll_interval = MulSecond(LimbOfInt(2, Limbs64))
    /\ pc = "parked"
    /\ calls = <<1, 2>>
    /\ emitted[Len(emitted)] = PagesConcat(cycle, <<1>>)

\* C19 (as claimed): on every batch Serve can send, the empty one included,
\* rateLimit's goroutine does not panic, forwards the events of the batch once
\* each, in the batch's order, one for each tick it takes, and closes its channel
\* once, after the last; processBatch has then received the whole batch, in
\* order, and returns.
C19_Dispatch ==
    /\ dpc # "panic"
    /\ dGot \o dFeed = SubSeq(dBatch, 1, dNext)
    /\ dClosed <= 1
    /\ dClosed = 1 => dNext = Len(dBatch)
    /\ dRange = "returned" => dGot = dBatch

\* C20 (as claimed): whatever the interleaving of the calls, the clients that
\* clientFor has returned for one user all have the same jar, which is the jar
\* the cookies map holds for that user: a jar stored for a user is not replaced.
C20_OneJarPerUser ==
    \A t1, t2 \in Callers :
        (cpc[t1] = "done" /\ cpc[t2] = "done" /\ cUser[t1] = cUser[t2]) =>
            /\ cJar[t1] = cJar[t2]
            /\ cookies[cUser[t1]] = cJar[t1]

====
